---- MODULE Spec2Model ----
(***************************************************************************)
(* Model of the video-game sales dashboard (src/components/Dashboard.tsx). *)
(*                                                                         *)
(* The state is the React state of the Dashboard component (data, loading, *)
(* filterYear, filterPlatform, currentView) together with the values its   *)
(* useMemo hooks cache (filteredData and the aggregates derived from it)   *)
(* and the data of the "Top 10 Games" chart of the last render.            *)
(*                                                                         *)
(* JavaScript values of a parsed CSV field are modelled as tagged records: *)
(* a number, a string, or null (papaparse with dynamicTyping turns numeric *)
(* text into numbers, an empty field into null and leaves other text as a  *)
(* string).  Sales figures are integers (units of 0.01 million copies), so *)
(* sums are exact; a quotient is kept as numerator/denominator, with the   *)
(* IEEE results NaN and Infinity for a zero denominator.                   *)
(*                                                                         *)
(* Spec is the component of Dashboard.tsx; SpecTop starts it on files with *)
(* more rows than the ranking shows; SpecLoad adds an observer's record of *)
(* the loads (history); SpecVariant is the earlier variant of the          *)
(* component, whose charts open a detail modal (selectedChart); SpecTable  *)
(* is a session at the data table (src/components/TableView.tsx).          *)
(***************************************************************************)
EXTENDS Integers, Sequences, FiniteSets

\* ------------------------------------------------------------------------
\* Bounds of the model
\* ------------------------------------------------------------------------

\* longest record sequence a load of the general dataset returns
MaxRecords == 3

\* longest record sequence of the ranking datasets (more than TopN rows)
MaxLong == 12

\* most loads a recorded session starts (the first load and the reloads)
MaxLoads == 3

\* ------------------------------------------------------------------------
\* JavaScript values
\* ------------------------------------------------------------------------

Num(n) == [t |-> "num", n |-> n, s |-> ""]

Str(s) == [t |-> "str", n |-> 0, s |-> s]

Null == [t |-> "null", n |-> 0, s |-> ""]

\* the characters of the texts of the model, in the order of their UTF-16
\* code units
CodeUnits ==
    " +-./0123456789ABCDEFGHIJKLMNOPQRSTUVWXYZabcdefghijklmnopqrstuvwxyz"

CharAt(s, i) == SubSeq(s, i, i)

\* the rank of every character's code unit: 6..15 are the digits, 16..41 the
\* capital letters and 42..67 the small letters
CodeRank ==
    [c \in { CharAt(CodeUnits, i) : i \in 1..Len(CodeUnits) } |->
        CHOOSE i \in 1..Len(CodeUnits) : CharAt(CodeUnits, i) = c]

CodeOf(c) == CodeRank[c]

\* ToBoolean: 0, "" and null are falsy
Truthy(v) == \/ v.t = "num" /\ v.n # 0
             \/ v.t = "str" /\ v.s # ""

Digit(d) == CASE d = 0 -> "0" [] d = 1 -> "1" [] d = 2 -> "2" [] d = 3 -> "3"
              [] d = 4 -> "4" [] d = 5 -> "5" [] d = 6 -> "6" [] d = 7 -> "7"
              [] d = 8 -> "8" [] d = 9 -> "9"

RECURSIVE NumToStr(_)
\* decimal text of a non-negative integer
NumToStr(n) == IF n < 10 THEN Digit(n)
               ELSE NumToStr(n \div 10) \o Digit(n % 10)

\* String(v)
JsString(v) == CASE v.t = "num" -> NumToStr(v.n)
                 [] v.t = "str" -> v.s
                 [] v.t = "null" -> "null"

\* v === s for a string s (strict equality: no coercion)
StrictEqStr(v, s) == v.t = "str" /\ v.s = s

\* (v || 0) for a numeric-or-null field
OrZero(v) == IF Truthy(v) THEN v.n ELSE 0

\* (Number(v) || 0): NaN (from text) and 0 (from null) both give 0
NumberOrZero(v) == IF v.t = "num" THEN v.n ELSE 0

\* a / b on non-negative numbers, with the IEEE results for b = 0
JsDiv(a, b) == IF b # 0 THEN [t |-> "fin", num |-> a, den |-> b]
               ELSE IF a = 0 THEN [t |-> "NaN", num |-> 0, den |-> 0]
               ELSE [t |-> "Infinity", num |-> 0, den |-> 0]

\* ------------------------------------------------------------------------
\* Records
\* ------------------------------------------------------------------------

\* one parsed row (GameData); Rank identifies the row
Game(rank, platform, year, genre, na, eu, jp, other, global) ==
    [Rank |-> rank, Platform |-> platform, Year |-> year, Genre |-> genre,
     NA_Sales |-> na, EU_Sales |-> eu, JP_Sales |-> jp, Other_Sales |-> other,
     Global_Sales |-> global]

\* loadData adds the calculated field Total_Regional_Sales to every row
WithCalculatedFields(game) ==
    [Rank |-> game.Rank, Platform |-> game.Platform, Year |-> game.Year,
     Genre |-> game.Genre, NA_Sales |-> game.NA_Sales,
     EU_Sales |-> game.EU_Sales, JP_Sales |-> game.JP_Sales,
     Other_Sales |-> game.Other_Sales, Global_Sales |-> game.Global_Sales,
     Total_Regional_Sales |-> OrZero(game.NA_Sales) + OrZero(game.EU_Sales)
                              + OrZero(game.JP_Sales) + OrZero(game.Other_Sales)]

\* rows the parser can return: text and numeric platforms; numeric, textual
\* and absent years; absent genres; absent and zero sales figures
Games ==
    { Game(1, Str("Wii"), Num(2008), Str("Sports"),
           Num(4), Num(3), Num(2), Num(1), Num(10)),
      Game(2, Str("DS"), Num(2008), Str("Action"),
           Num(2), Num(1), Null, Num(0), Num(5)),
      Game(3, Str("Wii"), Num(2009), Str("Sports"),
           Num(1), Num(1), Num(1), Null, Num(3)),
      Game(4, Num(2600), Null, Null,
           Num(3), Num(1), Num(0), Num(1), Num(5)),
      Game(5, Null, Str("N/A"), Null,
           Num(1), Null, Num(2), Null, Null) }

Range(seq) == { seq[i] : i \in DOMAIN seq }

Injective(seq) == \A i, j \in DOMAIN seq : seq[i] = seq[j] => i = j

\* what parseCSV can resolve to: every row has its own Rank
Datasets ==
    UNION { { seq \in [1..n -> Games] : Injective(seq) } : n \in 0..MaxRecords }

\* ------------------------------------------------------------------------
\* Derivations (the useMemo bodies)
\* ------------------------------------------------------------------------

\* the number of rows of the "Top 10 Games" chart: slice(0, 10)
TopN == 10

\* yearMatch of filteredData
YearMatch(game, fy) ==
    fy = "all" \/ (Truthy(game.Year) /\ JsString(game.Year) = fy)

\* platformMatch of filteredData
PlatformMatch(game, fp) ==
    fp = "all" \/ StrictEqStr(game.Platform, fp)

\* ApplyFilters with the two matches joined by || in place of &&
ApplyFiltersEither(records, fy, fp) ==
    LET keep(game) == YearMatch(game, fy) \/ PlatformMatch(game, fp)
    IN SelectSeq(records, keep)

RECURSIVE SpliceFrom(_, _, _, _)
\* a loop over the array itself that removes a record that does not match
\* with splice and then steps on, past the record that moved into its place
SpliceFrom(records, i, fy, fp) ==
    IF i > Len(records) THEN records
    ELSE IF YearMatch(records[i], fy) /\ PlatformMatch(records[i], fp)
         THEN SpliceFrom(records, i + 1, fy, fp)
         ELSE SpliceFrom(SubSeq(records, 1, i - 1)
                           \o SubSeq(records, i + 1, Len(records)),
                         i + 1, fy, fp)

\* ApplyFilters as such a loop in place of data.filter(...)
ApplyFiltersSplice(records, fy, fp) == SpliceFrom(records, 1, fy, fp)

\* filteredData: data.filter(...) builds a new array in input order
ApplyFilters(records, fy, fp) ==
    LET keep(game) == YearMatch(game, fy) /\ PlatformMatch(game, fp)
    IN SelectSeq(records, keep)

\* An object used as a map is the sequence of its own properties in creation
\* order.  A property is [k: the key text, ix: the key as an array index, or
\* -1 when the key is not one, v: the value].  Text fields of a parsed row
\* never look like a number (dynamicTyping would have made them numbers), so
\* a key is an array index exactly when it comes from a number.
PropertyKey(v) == [k |-> JsString(v), ix |-> IF v.t = "num" THEN v.n ELSE -1]

HasKey(obj, k) == \E i \in DOMAIN obj : obj[i].k = k

Get(obj, k) == (CHOOSE e \in Range(obj) : e.k = k).v

\* AddSale with acc[key] = ... in place of acc[key] += ...
AddSaleAssign(acc, key, game) ==
    LET pk == PropertyKey(key)
        amount == NumberOrZero(game.Global_Sales)
    IN IF HasKey(acc, pk.k)
       THEN [i \in DOMAIN acc |->
               IF acc[i].k = pk.k
               THEN [k |-> acc[i].k, ix |-> acc[i].ix, v |-> amount]
               ELSE acc[i]]
       ELSE Append(acc, [k |-> pk.k, ix |-> pk.ix, v |-> 0 + amount])

\* the reducer step of platformSales and genreSales:
\*   if (!acc[key]) acc[key] = 0;  acc[key] += Number(game.Global_Sales) || 0
AddSale(acc, key, game) ==
    LET pk == PropertyKey(key)
        amount == NumberOrZero(game.Global_Sales)
    IN IF HasKey(acc, pk.k)
       THEN [i \in DOMAIN acc |->
               IF acc[i].k = pk.k
               THEN [k |-> acc[i].k, ix |-> acc[i].ix, v |-> acc[i].v + amount]
               ELSE acc[i]]
       ELSE Append(acc, [k |-> pk.k, ix |-> pk.ix, v |-> 0 + amount])

RECURSIVE GroupSalesFrom(_, _, _, _)
\* reduce from row i on
GroupSalesFrom(records, field, i, acc) ==
    IF i > Len(records) THEN acc
    ELSE GroupSalesFrom(records, field, i + 1, AddSale(acc, records[i][field], records[i]))

\* PlatformSales grouped by the key of the genre chart
PlatformSalesByGenre(records) == GroupSalesFrom(records, "Genre", 1, <<>>)

\* platformSales
PlatformSales(records) == GroupSalesFrom(records, "Platform", 1, <<>>)

\* genreSales
GenreSales(records) == GroupSalesFrom(records, "Genre", 1, <<>>)

\* AddYear without the game.Year guards
AddYearUnguarded(acc, game) == AddSale(acc, game.Year, game)

\* the reducer step of yearlyTrend: both statements are guarded by game.Year
AddYear(acc, game) ==
    IF Truthy(game.Year) THEN AddSale(acc, game.Year, game) ELSE acc

RECURSIVE YearlyTrendFrom(_, _, _)
YearlyTrendFrom(records, i, acc) ==
    IF i > Len(records) THEN acc
    ELSE YearlyTrendFrom(records, i + 1, AddYear(acc, records[i]))

\* yearlyTrend
YearlyTrend(records) == YearlyTrendFrom(records, 1, <<>>)

\* A stable sort of items [sk: number, x: payload] into ascending sk: an item
\* goes behind every item already placed whose sk is not larger.
RECURSIVE InsertStable(_, _)
InsertStable(sorted, item) ==
    IF sorted = <<>> THEN <<item>>
    ELSE IF sorted[Len(sorted)].sk <= item.sk THEN Append(sorted, item)
    ELSE Append(InsertStable(SubSeq(sorted, 1, Len(sorted) - 1), item),
                sorted[Len(sorted)])

RECURSIVE StableSortFrom(_, _, _)
StableSortFrom(items, i, sorted) ==
    IF i > Len(items) THEN sorted
    ELSE StableSortFrom(items, i + 1, InsertStable(sorted, items[i]))

\* Array.prototype.sort with a consistent numeric comparator (stable)
StableSort(items) == StableSortFrom(items, 1, <<>>)

\* Object.entries: array-index keys in ascending numeric order, then the
\* other keys in creation order
ObjectEntries(obj) ==
    LET isIndex(e) == e.ix >= 0
        notIndex(e) == e.ix < 0
        idx == SelectSeq(obj, isIndex)
        byIx == StableSort([i \in DOMAIN idx |-> [sk |-> idx[i].ix, x |-> idx[i]]])
    IN [i \in DOMAIN byIx |-> byIx[i].x] \o SelectSeq(obj, notIndex)

\* averageSalesByGenre: for every entry of genreSales, its sum divided by the
\* number of filtered rows whose Genre === the key
GamesInGenre(records, genre) ==
    LET same(game) == StrictEqStr(game.Genre, genre)
    IN Len(SelectSeq(records, same))

AverageSalesByGenre(records, genreSales) ==
    LET entries == ObjectEntries(genreSales)
    IN [i \in DOMAIN entries |->
          [k |-> entries[i].k, ix |-> entries[i].ix,
           v |-> JsDiv(entries[i].v, GamesInGenre(records, entries[i].k))]]

RECURSIVE SumField(_, _, _)
\* reduce((sum, game) => sum + (game[field] || 0), 0) from row i on
SumField(records, field, i) ==
    IF i > Len(records) THEN 0
    ELSE OrZero(records[i][field]) + SumField(records, field, i + 1)

\* RegionalSales with Other taken as what Global_Sales leaves after the
\* three named regions
RegionalSalesRestOfWorld(records) ==
    [NA |-> SumField(records, "NA_Sales", 1),
     EU |-> SumField(records, "EU_Sales", 1),
     JP |-> SumField(records, "JP_Sales", 1),
     Other |-> SumField(records, "Global_Sales", 1)
               - SumField(records, "NA_Sales", 1)
               - SumField(records, "EU_Sales", 1)
               - SumField(records, "JP_Sales", 1)]

\* regionalSales
RegionalSales(records) ==
    [NA |-> SumField(records, "NA_Sales", 1),
     EU |-> SumField(records, "EU_Sales", 1),
     JP |-> SumField(records, "JP_Sales", 1),
     Other |-> SumField(records, "Other_Sales", 1)]

\* the value of entries[0] for an empty array
Undefined == [def |-> FALSE, k |-> "", v |-> 0]

\* TopEntry with the comparator a - b in place of b - a
TopEntryAscending(obj) ==
    LET entries == ObjectEntries(obj)
        sorted == StableSort([i \in DOMAIN entries |->
                                [sk |-> entries[i].v, x |-> entries[i]]])
    IN IF sorted = <<>> THEN Undefined
       ELSE [def |-> TRUE, k |-> sorted[1].x.k, v |-> sorted[1].x.v]

\* Object.entries(obj).sort(([, a], [, b]) => b - a)[0]
TopEntry(obj) ==
    LET entries == ObjectEntries(obj)
        sorted == StableSort([i \in DOMAIN entries |->
                                [sk |-> 0 - entries[i].v, x |-> entries[i]]])
    IN IF sorted = <<>> THEN Undefined
       ELSE [def |-> TRUE, k |-> sorted[1].x.k, v |-> sorted[1].x.v]

\* (region / totalSales) * 100
SharePercent(region, total) ==
    LET q == JsDiv(region, total)
    IN IF q.t = "fin" THEN [t |-> "fin", num |-> q.num * 100, den |-> q.den]
       ELSE q

\* metrics
Metrics(records, platformSales, genreSales, regionalSales, yearlyTrend) ==
    LET totalGames == Len(records)
        totalSales == SumField(records, "Global_Sales", 1)
    IN [totalGames |-> totalGames,
        totalSales |-> totalSales,
        avgSalesPerGame |-> JsDiv(totalSales, totalGames),
        topPlatform |-> TopEntry(platformSales),
        topGenre |-> TopEntry(genreSales),
        marketShare |-> [NA |-> SharePercent(regionalSales.NA, totalSales),
                         EU |-> SharePercent(regionalSales.EU, totalSales),
                         JP |-> SharePercent(regionalSales.JP, totalSales),
                         Other |-> SharePercent(regionalSales.Other, totalSales)],
        bestYear |-> TopEntry(yearlyTrend)]

\* SortByGlobalSales with the comparator's operands exchanged
SortByGlobalSalesAscending(records) ==
    LET sorted == StableSort([i \in DOMAIN records |->
                    [sk |-> OrZero(records[i].Global_Sales), x |-> records[i]]])
    IN [i \in DOMAIN sorted |-> sorted[i].x]

\* filteredData.sort((a, b) => (b.Global_Sales || 0) - (a.Global_Sales || 0)):
\* the order the array is left in
SortByGlobalSales(records) ==
    LET sorted == StableSort([i \in DOMAIN records |->
                    [sk |-> 0 - OrZero(records[i].Global_Sales), x |-> records[i]]])
    IN [i \in DOMAIN sorted |-> sorted[i].x]

\* slice(0, n)
Slice(seq, n) == SubSeq(seq, 1, IF Len(seq) < n THEN Len(seq) ELSE n)

\* ------------------------------------------------------------------------
\* The Dashboard component
\* ------------------------------------------------------------------------

VARIABLES
    data,                 \* useState: the loaded record sequence
    loading,              \* useState: a load is in progress (spinner shown)
    filterYear,           \* useState: "all" or the value of a year option
    filterPlatform,       \* useState: "all" or the value of a platform option
    currentView,          \* useState: "dashboard" or "table"
    filteredData,         \* useMemo: the cached filtered array
    platformSales,        \* useMemo
    genreSales,           \* useMemo
    yearlyTrend,          \* useMemo
    averageSalesByGenre,  \* useMemo
    regionalSales,        \* useMemo
    metrics,              \* useMemo
    topGames,             \* data of the "Top 10 Games" chart on screen, <<>>
                          \* while the chart is not rendered
    selectedChart,        \* useState: the chart of the detail modal, or null
    lastUpdated,          \* useState: the Date of the last successful load
    inflight,             \* number of loadData calls that await fetch or parse
    table,                \* the state of the TableView child, while mounted
    history               \* the record an observer keeps of the loads of a
                          \* session (not program state)

vars == <<data, loading, filterYear, filterPlatform, currentView, filteredData,
          platformSales, genreSales, yearlyTrend, averageSalesByGenre,
          regionalSales, metrics, topGames, selectedChart, lastUpdated,
          inflight, table, history>>

\* selectedChart === null: no chart detail is open
NoChart == [open |-> FALSE, title |-> "", data |-> <<>>]

\* lastUpdated === null: no load has succeeded
NeverUpdated == [set |-> FALSE, at |-> 0]

\* the useState initial values of the record sequence, the criteria, the view
\* and lastUpdated
InitialValues == [data |-> <<>>, filterYear |-> "all", filterPlatform |-> "all",
                  currentView |-> "dashboard", lastUpdated |-> NeverUpdated]

\* the values of the same state at this moment
CurrentValues == [data |-> data, filterYear |-> filterYear,
                  filterPlatform |-> filterPlatform,
                  currentView |-> currentView, lastUpdated |-> lastUpdated]

\* a session nobody records
Unrecorded == [on |-> FALSE, started |-> 0, clicks |-> 0, outcome |-> "none",
               replaced |-> FALSE, atStart |-> InitialValues]

\* the record at the moment the component is mounted: the effect has called
\* loadData once
FirstLoadStarted == [on |-> TRUE, started |-> 1, clicks |-> 0,
                     outcome |-> "none", replaced |-> FALSE,
                     atStart |-> InitialValues]

\* loadData is entered, by a click on Refresh or not; the observer notes
\* the values the state has at this moment
LoadStarted(h, byClick) ==
    IF h.on
    THEN [h EXCEPT !.started = @ + 1,
                   !.clicks = @ + (IF byClick THEN 1 ELSE 0),
                   !.atStart = CurrentValues]
    ELSE h

\* loadData has run its finally block; outcome is "ok" when setData was
\* called and "failed" when the catch block ran; replaced says that setData
\* put a non-empty sequence in the place of a different non-empty one; the
\* note taken at the start is dropped
LoadEnded(h, outcome, replaced) ==
    IF h.on
    THEN [h EXCEPT !.outcome = outcome, !.replaced = replaced,
                   !.atStart = InitialValues]
    ELSE h

\* new Date(): the time on the observer's clock, which shows the number of
\* loads started so far and stands still in a session nobody records
DateNow(h) == [set |-> TRUE, at |-> IF h.on THEN h.started ELSE 0]

\* sortConfig === null: no sort column is chosen
NoSort == [key |-> "", direction |-> ""]

\* no TableView is mounted
Unmounted == [mounted |-> FALSE, searchTerm |-> "", currentPage |-> 1,
              sortConfig |-> NoSort, filterPlatform |-> "all",
              filterGenre |-> "all"]

\* the useState initial values of a TableView that has just been mounted
InitialTable == [Unmounted EXCEPT !.mounted = TRUE]

\* a render that draws <TableView> keeps the state of the mounted child or
\* mounts a new one; a render that does not draw it unmounts the child
Mount(t, shown) ==
    IF shown THEN (IF t.mounted THEN t ELSE InitialTable) ELSE Unmounted

\* the value an <option value={v}> reports: React writes a number or a string
\* as text and omits the attribute for null, which leaves the (empty) label
OptionValue(v) == IF v.t = "null" THEN "" ELSE JsString(v)

\* the values the year dropdown can set: "all" and one per uniqueYears entry
YearOptions(records) ==
    {"all"} \cup { OptionValue(records[i].Year) : i \in DOMAIN records }

\* the values the platform dropdown can set
PlatformOptions(records) ==
    {"all"} \cup { OptionValue(records[i].Platform) : i \in DOMAIN records }

\* the charts (among them "Top 10 Games") are rendered when the component is
\* not loading, the filtered array is not empty and the view is the dashboard
ChartsShown(ld, records, view) ==
    ~ld /\ records # <<>> /\ view = "dashboard"

\* the table is rendered when the component is not loading, the filtered
\* array is not empty and the view is the table
TableShown(ld, records, view) ==
    ~ld /\ records # <<>> /\ view = "table"

\* every memo recomputed from a fresh filtered array
Derive(records) ==
    LET ps == PlatformSales(records)
        gs == GenreSales(records)
        yt == YearlyTrend(records)
        rs == RegionalSales(records)
    IN [filteredData |-> records,
        platformSales |-> ps,
        genreSales |-> gs,
        yearlyTrend |-> yt,
        averageSalesByGenre |-> AverageSalesByGenre(records, gs),
        regionalSales |-> rs,
        metrics |-> Metrics(records, ps, gs, rs, yt)]

\* the values the memos hold from the previous render
Cached ==
    [filteredData |-> filteredData,
     platformSales |-> platformSales,
     genreSales |-> genreSales,
     yearlyTrend |-> yearlyTrend,
     averageSalesByGenre |-> averageSalesByGenre,
     regionalSales |-> regionalSales,
     metrics |-> metrics]

\* The JSX of one render with the memo values m.  Rendering the "Top 10
\* Games" chart sorts the cached filteredData array in place and slices the
\* first TopN rows; nothing else touches the memo values.
Paint(m, ld, view) ==
    LET shown == ChartsShown(ld, m.filteredData, view)
        sorted == SortByGlobalSales(m.filteredData)
    IN [filteredData |-> IF shown THEN sorted ELSE m.filteredData,
        platformSales |-> m.platformSales,
        genreSales |-> m.genreSales,
        yearlyTrend |-> m.yearlyTrend,
        averageSalesByGenre |-> m.averageSalesByGenre,
        regionalSales |-> m.regionalSales,
        metrics |-> m.metrics,
        topGames |-> IF shown THEN Slice(sorted, TopN) ELSE <<>>]

\* The screen after one render of the component with the state
\* (d, ld, fy, fp, view).  fresh says that a dependency of the filteredData
\* memo changed: the memos that depend on filteredData are then recomputed
\* too, otherwise every memo keeps its cached value.
Screen(d, ld, fy, fp, view, fresh, cached) ==
    Paint(IF fresh THEN Derive(ApplyFilters(d, fy, fp)) ELSE cached, ld, view)

\* the memo variables hold the screen s
Shows(s) ==
    /\ filteredData = s.filteredData
    /\ platformSales = s.platformSales
    /\ genreSales = s.genreSales
    /\ yearlyTrend = s.yearlyTrend
    /\ averageSalesByGenre = s.averageSalesByGenre
    /\ regionalSales = s.regionalSales
    /\ metrics = s.metrics
    /\ topGames = s.topGames

\* one render as the effect of an action
Render(d, ld, fy, fp, view, fresh) ==
    LET s == Screen(d, ld, fy, fp, view, fresh, Cached)
    IN /\ filteredData' = s.filteredData
       /\ platformSales' = s.platformSales
       /\ genreSales' = s.genreSales
       /\ yearlyTrend' = s.yearlyTrend
       /\ averageSalesByGenre' = s.averageSalesByGenre
       /\ regionalSales' = s.regionalSales
       /\ metrics' = s.metrics
       /\ topGames' = s.topGames
       /\ table' = Mount(table, TableShown(ld, s.filteredData, view))

\* the component is mounted: initial state, first render (spinner) and the
\* effect that starts the first load
Init ==
    /\ data = <<>>
    /\ loading = TRUE
    /\ filterYear = "all"
    /\ filterPlatform = "all"
    /\ currentView = "dashboard"
    /\ selectedChart = NoChart
    /\ lastUpdated = NeverUpdated
    /\ inflight = 1
    /\ table = Unmounted
    /\ history = Unrecorded
    /\ Shows(Screen(<<>>, TRUE, "all", "all", "dashboard", TRUE, <<>>))

\* the parsed rows without the calculated field
Parsed(records) ==
    [i \in DOMAIN records |->
        Game(records[i].Rank, records[i].Platform, records[i].Year,
             records[i].Genre, records[i].NA_Sales, records[i].EU_Sales,
             records[i].JP_Sales, records[i].Other_Sales,
             records[i].Global_Sales)]

\* What fetch and parseCSV can deliver when the session holds records: any
\* dataset for an empty session; afterwards the served file is the one loaded
\* before, possibly with its last row removed or with one more row.
Served(records) ==
    IF records = <<>> THEN Datasets
    ELSE LET cur == Parsed(records)
         IN {cur, SubSeq(cur, 1, Len(cur) - 1)}
            \cup { Append(cur, g) : g \in { h \in Games :
                       /\ Len(cur) < MaxRecords
                       /\ \A i \in DOMAIN cur : cur[i].Rank # h.Rank } }

\* parsedData.map(...): the array handed to setData
Loaded(parsedData) ==
    [i \in DOMAIN parsedData |-> WithCalculatedFields(parsedData[i])]

\* LoadSucceed with the new rows pushed onto the array the state holds
LoadSucceedAppend(parsedData) ==
    /\ inflight > 0
    /\ data' = data \o Loaded(parsedData)
    /\ lastUpdated' = DateNow(history)
    /\ loading' = FALSE
    /\ inflight' = inflight - 1
    /\ history' = LoadEnded(history, "ok",
                            data # <<>> /\ data' # <<>> /\ data' # data)
    /\ UNCHANGED <<filterYear, filterPlatform, currentView, selectedChart>>
    /\ Render(data', FALSE, filterYear, filterPlatform, currentView, TRUE)

\* loadData, try branch: fetch and parse succeeded with the rows parsedData
LoadSucceed(parsedData) ==
    /\ inflight > 0
    /\ data' = Loaded(parsedData)
    /\ lastUpdated' = DateNow(history)
    /\ loading' = FALSE
    /\ inflight' = inflight - 1
    /\ history' = LoadEnded(history, "ok",
                            data # <<>> /\ data' # <<>> /\ data' # data)
    /\ UNCHANGED <<filterYear, filterPlatform, currentView, selectedChart>>
    /\ Render(data', FALSE, filterYear, filterPlatform, currentView, TRUE)

\* LoadFail with a catch block that calls loadData again
LoadFailRetry ==
    /\ inflight > 0
    /\ loading' = TRUE
    /\ history' = LoadStarted(LoadEnded(history, "failed", FALSE), FALSE)
    /\ UNCHANGED <<data, filterYear, filterPlatform, currentView, selectedChart,
                   lastUpdated, inflight>>
    /\ Render(data, TRUE, filterYear, filterPlatform, currentView, FALSE)

\* LoadFail with setLastUpdated(new Date()) in the finally block
LoadFailStamps ==
    /\ inflight > 0
    /\ loading' = FALSE
    /\ inflight' = inflight - 1
    /\ lastUpdated' = DateNow(history)
    /\ history' = LoadEnded(history, "failed", FALSE)
    /\ UNCHANGED <<data, filterYear, filterPlatform, currentView, selectedChart>>
    /\ Render(data, FALSE, filterYear, filterPlatform, currentView, FALSE)

\* LoadFail with setLoading(false) at the end of the try block instead of
\* in a finally block
LoadFailKeepsSpinner ==
    /\ inflight > 0
    /\ loading' = loading
    /\ inflight' = inflight - 1
    /\ history' = LoadEnded(history, "failed", FALSE)
    /\ UNCHANGED <<data, filterYear, filterPlatform, currentView, selectedChart,
                   lastUpdated>>
    /\ Render(data, loading, filterYear, filterPlatform, currentView, FALSE)

\* loadData, catch branch: fetch or parse threw; only finally runs
LoadFail ==
    /\ inflight > 0
    /\ loading' = FALSE
    /\ inflight' = inflight - 1
    /\ history' = LoadEnded(history, "failed", FALSE)
    /\ UNCHANGED <<data, filterYear, filterPlatform, currentView, selectedChart,
                   lastUpdated>>
    /\ Render(data, FALSE, filterYear, filterPlatform, currentView, FALSE)

\* Refresh with a button that is rendered while a load is in progress too
RefreshWhileLoading ==
    /\ history.on => history.started < MaxLoads
    /\ loading' = TRUE
    /\ inflight' = inflight + 1
    /\ history' = LoadStarted(history, TRUE)
    /\ UNCHANGED <<data, filterYear, filterPlatform, currentView, selectedChart,
                   lastUpdated>>
    /\ Render(data, TRUE, filterYear, filterPlatform, currentView, FALSE)

\* the Refresh button: loadData starts with setLoading(true)
Refresh ==
    /\ ~loading
    /\ history.on => history.started < MaxLoads
    /\ loading' = TRUE
    /\ inflight' = inflight + 1
    /\ history' = LoadStarted(history, TRUE)
    /\ UNCHANGED <<data, filterYear, filterPlatform, currentView, selectedChart,
                   lastUpdated>>
    /\ Render(data, TRUE, filterYear, filterPlatform, currentView, FALSE)

\* the year <select>: onChange sets filterYear to the chosen option's value
SetFilterYear(year) ==
    /\ ~loading
    /\ year \in YearOptions(data)
    /\ year # filterYear
    /\ filterYear' = year
    /\ UNCHANGED <<data, loading, filterPlatform, currentView, selectedChart,
                   history, lastUpdated, inflight>>
    /\ Render(data, loading, year, filterPlatform, currentView, TRUE)

\* the platform <select>
SetFilterPlatform(platform) ==
    /\ ~loading
    /\ platform \in PlatformOptions(data)
    /\ platform # filterPlatform
    /\ filterPlatform' = platform
    /\ UNCHANGED <<data, loading, filterYear, currentView, selectedChart,
                   history, lastUpdated, inflight>>
    /\ Render(data, loading, filterYear, platform, currentView, TRUE)

\* "Reset Year Filter" of the "No Data Found" panel
ResetYearFilter ==
    /\ ~loading
    /\ filteredData = <<>>
    /\ filterYear # "all"
    /\ filterYear' = "all"
    /\ UNCHANGED <<data, loading, filterPlatform, currentView, selectedChart,
                   history, lastUpdated, inflight>>
    /\ Render(data, loading, "all", filterPlatform, currentView, TRUE)

\* "Reset Platform Filter" of the "No Data Found" panel
ResetPlatformFilter ==
    /\ ~loading
    /\ filteredData = <<>>
    /\ filterPlatform # "all"
    /\ filterPlatform' = "all"
    /\ UNCHANGED <<data, loading, filterYear, currentView, selectedChart,
                   history, lastUpdated, inflight>>
    /\ Render(data, loading, filterYear, "all", currentView, TRUE)

\* the navigation pills "Dashboard" and "Data Table"
SetCurrentView(view) ==
    /\ ~loading
    /\ view # currentView
    /\ currentView' = view
    /\ UNCHANGED <<data, loading, filterYear, filterPlatform, selectedChart,
                   history, lastUpdated, inflight>>
    /\ Render(data, loading, filterYear, filterPlatform, view, FALSE)

Next ==
    \/ \E parsedData \in Served(data) : LoadSucceed(parsedData)
    \/ LoadFail
    \/ Refresh
    \/ \E year \in YearOptions(data) : SetFilterYear(year)
    \/ \E platform \in PlatformOptions(data) : SetFilterPlatform(platform)
    \/ ResetYearFilter
    \/ ResetPlatformFilter
    \/ \E view \in {"dashboard", "table"} : SetCurrentView(view)

Spec == Init /\ [][Next]_vars

\* ------------------------------------------------------------------------
\* Sessions on a file with more rows than the ranking shows
\* ------------------------------------------------------------------------

\* row i of a ranking file: platforms alternate, the sales figure g varies
LongGame(i, g) ==
    Game(i, IF i % 2 = 1 THEN Str("Wii") ELSE Str("DS"), Num(2008),
         Str("Sports"), Num(1), Null, Null, Null, g)

\* files of TopN - 1 to MaxLong rows whose sales figures (absent, zero and
\* equal ones among them) repeat with period 3
LongDatasets ==
    { [i \in 1..n |-> LongGame(i, f[(i % 3) + 1])] :
        f \in [1..3 -> {Null, Num(0), Num(1), Num(2)}],
        n \in (TopN - 1)..MaxLong }

\* the dashboard right after the first load delivered a ranking file
InitTop ==
    \E parsedData \in LongDatasets :
        /\ data = Loaded(parsedData)
        /\ loading = FALSE
        /\ filterYear = "all"
        /\ filterPlatform = "all"
        /\ currentView = "dashboard"
        /\ selectedChart = NoChart
        /\ lastUpdated = DateNow(Unrecorded)
        /\ inflight = 0
        /\ table = Unmounted
        /\ history = Unrecorded
        /\ Shows(Screen(data, FALSE, "all", "all", "dashboard", TRUE, <<>>))

\* the user filters and switches views
NextTop ==
    \/ \E year \in YearOptions(data) : SetFilterYear(year)
    \/ \E platform \in PlatformOptions(data) : SetFilterPlatform(platform)
    \/ \E view \in {"dashboard", "table"} : SetCurrentView(view)

SpecTop == InitTop /\ [][NextTop]_vars

\* ------------------------------------------------------------------------
\* Sessions whose loads are recorded
\* ------------------------------------------------------------------------

\* the component is mounted and an observer records its loads
InitLoad ==
    /\ data = <<>>
    /\ loading = TRUE
    /\ filterYear = "all"
    /\ filterPlatform = "all"
    /\ currentView = "dashboard"
    /\ selectedChart = NoChart
    /\ lastUpdated = NeverUpdated
    /\ inflight = 1
    /\ table = Unmounted
    /\ history = FirstLoadStarted
    /\ Shows(Screen(<<>>, TRUE, "all", "all", "dashboard", TRUE, <<>>))

\* files in which every row has a platform name and a numeric year
WellFormed(records) ==
    \A i \in DOMAIN records :
        records[i].Platform.t = "str" /\ records[i].Year.t = "num"

\* the server delivers well-formed files
NextLoad ==
    \/ \E parsedData \in { p \in Served(data) : WellFormed(p) } :
          LoadSucceed(parsedData)
    \/ LoadFail
    \/ Refresh
    \/ \E year \in YearOptions(data) : SetFilterYear(year)
    \/ \E platform \in PlatformOptions(data) : SetFilterPlatform(platform)
    \/ ResetYearFilter
    \/ ResetPlatformFilter
    \/ \E view \in {"dashboard", "table"} : SetCurrentView(view)

SpecLoad == InitLoad /\ [][NextLoad]_vars

\* the load in flight ends: fetch and parse complete, with rows or an error
LoadCompletes ==
    \/ LoadFail
    \/ \E parsedData \in { p \in Served(data) : WellFormed(p) } :
          LoadSucceed(parsedData)

\* recorded sessions in which the fetch and the parse of every load complete
SpecLoadFair == SpecLoad /\ WF_vars(LoadCompletes)

\* ------------------------------------------------------------------------
\* The earlier Dashboard variant with the chart detail modal
\* ------------------------------------------------------------------------

\* longest record sequence a load of the variant returns
MaxVariantRecords == 2

NaN == [t |-> "nan", n |-> 0, s |-> ""]

RECURSIVE SkipSpaces(_, _)
\* the first position from i on that holds no space
SkipSpaces(s, i) ==
    IF i <= Len(s) /\ CharAt(s, i) = " " THEN SkipSpaces(s, i + 1) ELSE i

RECURSIVE DigitsFrom(_, _, _, _)
\* the decimal digits that stand at position i and after it: their number
\* and their value behind the value n of the count digits read before
DigitsFrom(s, i, n, count) ==
    IF i <= Len(s) /\ CodeOf(CharAt(s, i)) \in 6..15
    THEN DigitsFrom(s, i + 1, 10 * n + (CodeOf(CharAt(s, i)) - 6), count + 1)
    ELSE [n |-> n, count |-> count]

\* parseInt(s): leading spaces, an optional sign and the longest run of
\* decimal digits; NaN when no digit stands there (no text of the model
\* starts with 0x)
ParseInt(s) ==
    LET start == SkipSpaces(s, 1)
        signed == start <= Len(s) /\ CharAt(s, start) \in {"+", "-"}
        digits == DigitsFrom(s, IF signed THEN start + 1 ELSE start, 0, 0)
    IN IF digits.count = 0 THEN NaN
       ELSE IF signed /\ CharAt(s, start) = "-" THEN Num(0 - digits.n)
       ELSE Num(digits.n)

\* a === b for a field a and a parsed number b: NaN equals nothing
StrictEqNum(a, b) == b.t = "num" /\ a = b

\* VariantYearMatch without parseInt: game.Year === filterYear
VariantYearMatchText(game, fy) ==
    fy = "all" \/ StrictEqStr(game.Year, fy)

\* yearMatch of the variant: game.Year === parseInt(filterYear)
VariantYearMatch(game, fy) ==
    fy = "all" \/ StrictEqNum(game.Year, ParseInt(fy))

\* filteredData of the variant
VariantApplyFilters(records, fy, fp) ==
    LET keep(game) == VariantYearMatch(game, fy) /\ PlatformMatch(game, fp)
    IN SelectSeq(records, keep)

\* totalSales, totalGames and the quotient of the "Avg Sales/Game" card,
\* computed in the render itself
VariantTotals(records) ==
    LET totalGames == Len(records)
        totalSales == SumField(records, "Global_Sales", 1)
    IN [totalGames |-> totalGames,
        totalSales |-> totalSales,
        avgSalesPerGame |-> JsDiv(totalSales, totalGames)]

\* the memos of the variant recomputed from a fresh filtered array
VariantDerive(records) ==
    LET gs == GenreSales(records)
    IN [filteredData |-> records,
        platformSales |-> PlatformSales(records),
        genreSales |-> gs,
        yearlyTrend |-> YearlyTrend(records),
        averageSalesByGenre |-> AverageSalesByGenre(records, gs),
        regionalSales |-> RegionalSales(records),
        metrics |-> VariantTotals(records)]

\* the variant draws its charts whenever it shows the dashboard view, also
\* for an empty filtered array
VariantChartsShown(ld, view) == ~ld /\ view = "dashboard"

\* the variant draws the table whenever it shows the table view
VariantTableShown(ld, view) == ~ld /\ view = "table"

\* the JSX of one render of the variant
VariantPaint(m, ld, view) ==
    LET shown == VariantChartsShown(ld, view)
        sorted == SortByGlobalSales(m.filteredData)
    IN [filteredData |-> IF shown THEN sorted ELSE m.filteredData,
        platformSales |-> m.platformSales,
        genreSales |-> m.genreSales,
        yearlyTrend |-> m.yearlyTrend,
        averageSalesByGenre |-> m.averageSalesByGenre,
        regionalSales |-> m.regionalSales,
        metrics |-> m.metrics,
        topGames |-> IF shown THEN Slice(sorted, TopN) ELSE <<>>]

VariantScreen(d, ld, fy, fp, view, fresh, cached) ==
    VariantPaint(IF fresh THEN VariantDerive(VariantApplyFilters(d, fy, fp))
                 ELSE cached, ld, view)

\* one render of the variant as the effect of an action
VariantRender(d, ld, fy, fp, view, fresh) ==
    LET s == VariantScreen(d, ld, fy, fp, view, fresh, Cached)
    IN /\ filteredData' = s.filteredData
       /\ platformSales' = s.platformSales
       /\ genreSales' = s.genreSales
       /\ yearlyTrend' = s.yearlyTrend
       /\ averageSalesByGenre' = s.averageSalesByGenre
       /\ regionalSales' = s.regionalSales
       /\ metrics' = s.metrics
       /\ topGames' = s.topGames
       /\ table' = Mount(table, VariantTableShown(ld, view))

\* the charts a click opens in the detail modal
ChartTitles == {"Sales Trend Over Years", "Sales by Platform", "Sales by Genre",
                "Regional Sales Distribution", "Average Sales by Genre",
                "Top 10 Games by Global Sales"}

\* the rows [k, v] of an object's entries
EntryRows(obj) ==
    LET entries == ObjectEntries(obj)
    IN [i \in DOMAIN entries |-> [k |-> entries[i].k, v |-> entries[i].v]]

\* the data array a click on the chart title hands to setSelectedChart,
\* built from the memo values m and the chart rows top
ChartData(title, m, top) ==
    CASE title = "Sales Trend Over Years" ->
           LET isYear(row) == row.k # "N/A"
           IN SelectSeq(EntryRows(m.yearlyTrend), isYear)
      [] title = "Sales by Platform" -> EntryRows(m.platformSales)
      [] title = "Sales by Genre" -> EntryRows(m.genreSales)
      [] title = "Regional Sales Distribution" ->
           << [k |-> "NA", v |-> m.regionalSales.NA],
              [k |-> "EU", v |-> m.regionalSales.EU],
              [k |-> "JP", v |-> m.regionalSales.JP],
              [k |-> "Other", v |-> m.regionalSales.Other] >>
      [] title = "Average Sales by Genre" -> EntryRows(m.averageSalesByGenre)
      [] title = "Top 10 Games by Global Sales" ->
           [i \in DOMAIN top |->
              [k |-> NumToStr(top[i].Rank), v |-> top[i].Global_Sales]]

\* the modal is part of the dashboard view
ModalShown ==
    VariantChartsShown(loading, currentView) /\ selectedChart.open

\* The modal reads Object.keys(selectedChart.data[0]): for an empty data
\* array the render throws a TypeError and React unmounts the component, so
\* that no handler is left.
RenderThrows == ModalShown /\ selectedChart.data = <<>>

\* the variant is mounted; its effect starts the only load
VariantInit ==
    /\ data = <<>>
    /\ loading = TRUE
    /\ filterYear = "all"
    /\ filterPlatform = "all"
    /\ currentView = "dashboard"
    /\ selectedChart = NoChart
    /\ lastUpdated = NeverUpdated
    /\ inflight = 1
    /\ table = Unmounted
    /\ history = Unrecorded
    /\ Shows(VariantScreen(<<>>, TRUE, "all", "all", "dashboard", TRUE, <<>>))

\* what the only load of the variant can deliver
VariantDatasets == { seq \in Datasets : Len(seq) <= MaxVariantRecords }

\* loadData of the variant, try branch: setData(parsedData), no calculated
\* field
VariantLoadSucceed(parsedData) ==
    /\ inflight > 0
    /\ data' = parsedData
    /\ loading' = FALSE
    /\ inflight' = inflight - 1
    /\ history' = LoadEnded(history, "ok", FALSE)
    /\ UNCHANGED <<filterYear, filterPlatform, currentView, selectedChart,
                   lastUpdated>>
    /\ VariantRender(data', FALSE, filterYear, filterPlatform, currentView, TRUE)

\* loadData of the variant, catch branch
VariantLoadFail ==
    /\ inflight > 0
    /\ loading' = FALSE
    /\ inflight' = inflight - 1
    /\ history' = LoadEnded(history, "failed", FALSE)
    /\ UNCHANGED <<data, filterYear, filterPlatform, currentView, selectedChart,
                   lastUpdated>>
    /\ VariantRender(data, FALSE, filterYear, filterPlatform, currentView, FALSE)

\* The year <select> of the variant.  It is part of the dashboard view and
\* stays mounted and enabled under the modal, which is drawn over the page.
VariantSetFilterYear(year) ==
    /\ VariantChartsShown(loading, currentView)
    /\ ~RenderThrows
    /\ year \in YearOptions(data)
    /\ year # filterYear
    /\ filterYear' = year
    /\ UNCHANGED <<data, loading, filterPlatform, currentView, selectedChart,
                   history, lastUpdated, inflight>>
    /\ VariantRender(data, loading, year, filterPlatform, currentView, TRUE)

\* the platform <select> of the variant
VariantSetFilterPlatform(platform) ==
    /\ VariantChartsShown(loading, currentView)
    /\ ~RenderThrows
    /\ platform \in PlatformOptions(data)
    /\ platform # filterPlatform
    /\ filterPlatform' = platform
    /\ UNCHANGED <<data, loading, filterYear, currentView, selectedChart,
                   history, lastUpdated, inflight>>
    /\ VariantRender(data, loading, filterYear, platform, currentView, TRUE)

\* the navigation buttons of the variant
VariantSetCurrentView(view) ==
    /\ ~loading
    /\ ~RenderThrows
    /\ view # currentView
    /\ currentView' = view
    /\ UNCHANGED <<data, loading, filterYear, filterPlatform, selectedChart,
                   history, lastUpdated, inflight>>
    /\ VariantRender(data, loading, filterYear, filterPlatform, view, FALSE)

\* a click on a chart: setSelectedChart with a data array built from the
\* values of this render (the modal covers the charts while it is open)
OpenChart(title) ==
    /\ VariantChartsShown(loading, currentView)
    /\ ~selectedChart.open
    /\ selectedChart' = [open |-> TRUE, title |-> title,
                         data |-> ChartData(title, Cached, topGames)]
    /\ UNCHANGED <<data, loading, filterYear, filterPlatform, currentView,
                   history, lastUpdated, inflight>>
    /\ VariantRender(data, loading, filterYear, filterPlatform, currentView,
                     FALSE)

\* the close button of the modal: setSelectedChart(null)
CloseChart ==
    /\ ModalShown
    /\ ~RenderThrows
    /\ selectedChart' = NoChart
    /\ UNCHANGED <<data, loading, filterYear, filterPlatform, currentView,
                   history, lastUpdated, inflight>>
    /\ VariantRender(data, loading, filterYear, filterPlatform, currentView,
                     FALSE)

VariantNext ==
    \/ \E parsedData \in VariantDatasets : VariantLoadSucceed(parsedData)
    \/ VariantLoadFail
    \/ \E year \in YearOptions(data) : VariantSetFilterYear(year)
    \/ \E platform \in PlatformOptions(data) : VariantSetFilterPlatform(platform)
    \/ \E view \in {"dashboard", "table"} : VariantSetCurrentView(view)
    \/ \E title \in ChartTitles : OpenChart(title)
    \/ CloseChart

SpecVariant == VariantInit /\ [][VariantNext]_vars

\* ------------------------------------------------------------------------
\* The TableView component
\* ------------------------------------------------------------------------

\* The state of the mounted TableView is the record table (searchTerm,
\* currentPage, sortConfig, filterPlatform, filterGenre); its prop data is the
\* filteredData of the parent.  The memos filteredData, sortedData and
\* paginatedData are functions of the prop and the state (the sort works on
\* a copy).  The detail modal of a row (selectedGame) takes no part in
\* searching, filtering, sorting or paging and is left out.

\* number of rows of the file of a session at the data table
MaxTableRows == 26

\* itemsPerPage
ItemsPerPage == 25

RECURSIVE LowerFrom(_, _)
LowerFrom(s, i) ==
    IF i > Len(s) THEN ""
    ELSE LET c == CharAt(s, i)
             k == CodeOf(c)
         IN (IF k \in 16..41 THEN CharAt(CodeUnits, k + 26) ELSE c)
            \o LowerFrom(s, i + 1)

\* String.prototype.toLowerCase
ToLowerCase(s) == LowerFrom(s, 1)

\* String.prototype.includes: term occurs in s at some position
Includes(s, term) ==
    \E i \in 1..(Len(s) - Len(term) + 1) : SubSeq(s, i, i + Len(term) - 1) = term

\* Object.values(item): the fields of a row
ObjectValues(item) ==
    {Num(item.Rank), item.Platform, item.Year, item.Genre, item.NA_Sales,
     item.EU_Sales, item.JP_Sales, item.Other_Sales, item.Global_Sales,
     Num(item.Total_Regional_Sales)}

\* matchesSearch: some value's text contains the search term, both in lower
\* case; value?.toString() of an absent value is undefined, which is falsy
MatchesSearch(item, searchTerm) ==
    \E value \in ObjectValues(item) :
        /\ value.t # "null"
        /\ Includes(ToLowerCase(JsString(value)), ToLowerCase(searchTerm))

\* filteredData of the table: search, platform and genre filters on the prop
TableFilteredData(t, records) ==
    LET keep(item) ==
            /\ MatchesSearch(item, t.searchTerm)
            /\ t.filterPlatform = "all"
                  \/ StrictEqStr(item.Platform, t.filterPlatform)
            /\ t.filterGenre = "all" \/ StrictEqStr(item.Genre, t.filterGenre)
    IN SelectSeq(records, keep)

\* a[sortConfig.key]
Field(item, key) ==
    CASE key = "Platform" -> item.Platform
      [] key = "Year" -> item.Year
      [] key = "Genre" -> item.Genre
      [] key = "NA_Sales" -> item.NA_Sales
      [] key = "EU_Sales" -> item.EU_Sales
      [] key = "JP_Sales" -> item.JP_Sales
      [] key = "Other_Sales" -> item.Other_Sales
      [] key = "Global_Sales" -> item.Global_Sales

RECURSIVE StrLessFrom(_, _, _)
\* a < b for two strings: the first differing code unit decides, a proper
\* prefix is smaller
StrLessFrom(a, b, i) ==
    IF i > Len(b) THEN FALSE
    ELSE IF i > Len(a) THEN TRUE
    ELSE LET x == CodeOf(CharAt(a, i))
             y == CodeOf(CharAt(b, i))
         IN IF x = y THEN StrLessFrom(a, b, i + 1) ELSE x < y

\* ToNumber of a field: null is 0 and a text that is not a numeral is NaN
\* (a numeral never stays text under dynamicTyping)
ToNumber(v) == CASE v.t = "num" -> [nan |-> FALSE, n |-> v.n]
                 [] v.t = "null" -> [nan |-> FALSE, n |-> 0]
                 [] v.t = "str" -> [nan |-> TRUE, n |-> 0]

\* a < b: two strings compare by code units, anything else as numbers, and
\* a comparison with NaN is false
JsLess(a, b) ==
    IF a.t = "str" /\ b.t = "str" THEN StrLessFrom(a.s, b.s, 1)
    ELSE LET x == ToNumber(a)
             y == ToNumber(b)
         IN ~x.nan /\ ~y.nan /\ x.n < y.n

\* the comparator of sortedData
Compare(sortConfig, a, b) ==
    LET aValue == Field(a, sortConfig.key)
        bValue == Field(b, sortConfig.key)
    IN IF JsLess(aValue, bValue)
       THEN (IF sortConfig.direction = "asc" THEN -1 ELSE 1)
       ELSE IF JsLess(bValue, aValue)
       THEN (IF sortConfig.direction = "asc" THEN 1 ELSE -1)
       ELSE 0

RECURSIVE InsertBy(_, _, _)
\* item goes behind every row already placed that the comparator does not
\* put after it
InsertBy(sortConfig, sorted, item) ==
    IF sorted = <<>> THEN <<item>>
    ELSE IF Compare(sortConfig, sorted[Len(sorted)], item) <= 0
    THEN Append(sorted, item)
    ELSE Append(InsertBy(sortConfig, SubSeq(sorted, 1, Len(sorted) - 1), item),
                sorted[Len(sorted)])

RECURSIVE SortFrom(_, _, _, _)
SortFrom(sortConfig, items, i, sorted) ==
    IF i > Len(items) THEN sorted
    ELSE SortFrom(sortConfig, items, i + 1, InsertBy(sortConfig, sorted, items[i]))

\* sortedData: a copy of the filtered rows, sorted (stably) when a sort
\* column is chosen
SortedData(t, records) ==
    LET sortableItems == TableFilteredData(t, records)
    IN IF t.sortConfig # NoSort
       THEN SortFrom(t.sortConfig, sortableItems, 1, <<>>)
       ELSE sortableItems

\* Array.prototype.slice(start, end): a negative index counts from the end
SliceRange(seq, start, end) ==
    LET len == Len(seq)
        clamp(k) == IF k < 0 THEN (IF len + k < 0 THEN 0 ELSE len + k)
                    ELSE (IF k > len THEN len ELSE k)
    IN SubSeq(seq, clamp(start) + 1, clamp(end))

\* PageOf with firstPageIndex = currentPage * itemsPerPage
PageOfFromZero(sorted, page) ==
    LET firstPageIndex == page * ItemsPerPage
    IN SliceRange(sorted, firstPageIndex, firstPageIndex + ItemsPerPage)

\* the rows of page number page of the rows sorted
PageOf(sorted, page) ==
    LET firstPageIndex == (page - 1) * ItemsPerPage
    IN SliceRange(sorted, firstPageIndex, firstPageIndex + ItemsPerPage)

\* paginatedData
PaginatedData(t, records) == PageOf(SortedData(t, records), t.currentPage)

\* Math.ceil(n / d) for n >= 0 and d > 0
Ceil(n, d) == (n + d - 1) \div d

\* totalPages of a sorted result of n rows
PagesFor(n) == Ceil(n, ItemsPerPage)

\* totalPages
TotalPages(t, records) == PagesFor(Len(SortedData(t, records)))

\* the values the genre dropdown of the table can set
GenreOptions(records) ==
    {"all"} \cup { OptionValue(records[i].Genre) : i \in DOMAIN records }

\* the state of the parent component
parent == <<data, loading, filterYear, filterPlatform, currentView,
            filteredData, platformSales, genreSales, yearlyTrend,
            averageSalesByGenre, regionalSales, metrics, topGames,
            selectedChart, lastUpdated, inflight, history>>

\* what a user types into the search box: terms of letters, so that the
\* unit in which the sales figures are written plays no part
SearchTerms == {"", "Wii", "zz"}

\* the column headers a user clicks
SortKeys == {"Platform", "Global_Sales"}

\* the search input
SetSearchTerm(term) ==
    /\ table.mounted
    /\ term # table.searchTerm
    /\ table' = [table EXCEPT !.searchTerm = term]
    /\ UNCHANGED parent

\* the platform <select> of the table
SetTableFilterPlatform(platform) ==
    /\ table.mounted
    /\ platform \in PlatformOptions(filteredData)
    /\ platform # table.filterPlatform
    /\ table' = [table EXCEPT !.filterPlatform = platform]
    /\ UNCHANGED parent

\* the genre <select> of the table
SetTableFilterGenre(genre) ==
    /\ table.mounted
    /\ genre \in GenreOptions(filteredData)
    /\ genre # table.filterGenre
    /\ table' = [table EXCEPT !.filterGenre = genre]
    /\ UNCHANGED parent

\* HandleSort with a third click on a column that takes the sort away
HandleSortCycle(key) ==
    /\ table.mounted
    /\ table' = [table EXCEPT !.sortConfig =
                    IF table.sortConfig.key # key
                    THEN [key |-> key, direction |-> "asc"]
                    ELSE IF table.sortConfig.direction = "asc"
                    THEN [key |-> key, direction |-> "desc"]
                    ELSE NoSort]
    /\ UNCHANGED parent

\* handleSort: a click on a column header
HandleSort(key) ==
    /\ table.mounted
    /\ table' = [table EXCEPT !.sortConfig =
                    [key |-> key,
                     direction |-> IF /\ table.sortConfig.key = key
                                      /\ table.sortConfig.direction = "asc"
                                   THEN "desc" ELSE "asc"]]
    /\ UNCHANGED parent

\* the Previous button, disabled on page 1
PreviousPage ==
    /\ table.mounted
    /\ table.currentPage # 1
    /\ table' = [table EXCEPT !.currentPage =
                    IF @ - 1 > 1 THEN @ - 1 ELSE 1]
    /\ UNCHANGED parent

\* the Next button, disabled on the page whose number is totalPages
NextPage ==
    LET totalPages == TotalPages(table, filteredData)
    IN /\ table.mounted
       /\ table.currentPage # totalPages
       /\ table' = [table EXCEPT !.currentPage =
                       IF @ + 1 < totalPages THEN @ + 1 ELSE totalPages]
       /\ UNCHANGED parent

\* row i of a table file: the first row alone is a DS game, the sales
\* figures repeat with period 4 and are absent in every fourth row
TableGame(i) ==
    Game(i, IF i = 1 THEN Str("DS") ELSE Str("Wii"), Num(2008), Str("Sports"),
         Num(1), Null, Null, Null, IF i % 4 = 0 THEN Null ELSE Num(i % 4))

\* the file of a table session, of more than one page
TableDatasets == { [i \in 1..MaxTableRows |-> TableGame(i)] }

\* the dashboard right after the first load delivered a table file
InitTable ==
    \E parsedData \in TableDatasets :
        /\ data = Loaded(parsedData)
        /\ loading = FALSE
        /\ filterYear = "all"
        /\ filterPlatform = "all"
        /\ currentView = "dashboard"
        /\ selectedChart = NoChart
        /\ lastUpdated = DateNow(Unrecorded)
        /\ inflight = 0
        /\ table = Unmounted
        /\ history = Unrecorded
        /\ Shows(Screen(data, FALSE, "all", "all", "dashboard", TRUE, <<>>))

\* the user switches views, filters by platform in the header and works
\* with the table
NextTable ==
    \/ \E view \in {"dashboard", "table"} : SetCurrentView(view)
    \/ \E platform \in PlatformOptions(data) : SetFilterPlatform(platform)
    \/ \E term \in SearchTerms : SetSearchTerm(term)
    \/ \E platform \in PlatformOptions(filteredData) :
          SetTableFilterPlatform(platform)
    \/ \E genre \in GenreOptions(filteredData) : SetTableFilterGenre(genre)
    \/ \E key \in SortKeys : HandleSort(key)
    \/ PreviousPage
    \/ NextPage

SpecTable == InitTable /\ [][NextTable]_vars

\* ------------------------------------------------------------------------
\* Properties
\* ------------------------------------------------------------------------

RECURSIVE SumSeq(_)
SumSeq(seq) == IF seq = <<>> THEN 0 ELSE Head(seq) + SumSeq(Tail(seq))

\* a sales figure with an absent value counted as 0
AbsentAsZero(v) == IF v.t = "num" THEN v.n ELSE 0

\* the sum of Global_Sales over the records that satisfy the predicate has
GlobalSalesOf(records, has(_)) ==
    SumSeq([i \in DOMAIN records |->
              IF has(records[i]) THEN AbsentAsZero(records[i].Global_Sales)
              ELSE 0])

AnyRecord(game) == TRUE

\* the sum of all values of a grouped aggregate
SumValues(obj) == SumSeq([i \in DOMAIN obj |-> obj[i].v])

\* the position of a row in the loaded sequence
PosInData(game) == CHOOSE i \in DOMAIN data : data[i].Rank = game.Rank

\* a record satisfies a criterion when the criterion is "all" or the field is
\* present and, written as text, equals the criterion
Satisfies(v, criterion) ==
    criterion = "all" \/ (v # Null /\ JsString(v) = criterion)

SatisfiesBoth(game) ==
    Satisfies(game.Year, filterYear) /\ Satisfies(game.Platform, filterPlatform)

\* C1: the filtered sequence is a subsequence of the loaded sequence in the
\* same relative order and holds exactly the records that satisfy both
\* criteria.
C1_FilteredExactInOrder ==
    /\ \A i \in DOMAIN filteredData : filteredData[i] \in Range(data)
    /\ \A i, j \in DOMAIN filteredData :
          i < j => PosInData(filteredData[i]) < PosInData(filteredData[j])
    /\ \A i \in DOMAIN data :
          SatisfiesBoth(data[i]) <=> data[i] \in Range(filteredData)

\* C2: the values of platformSales and of genreSales each add up to the sum
\* of Global_Sales over the filtered records (absent counted as 0), which is
\* also the totalSales metric.
C2_MassConservation ==
    /\ SumValues(platformSales) = GlobalSalesOf(filteredData, AnyRecord)
    /\ SumValues(genreSales) = GlobalSalesOf(filteredData, AnyRecord)
    /\ metrics.totalSales = GlobalSalesOf(filteredData, AnyRecord)

\* C2 witness: a displayed dashboard with several platforms and genres, a
\* platform that collects two records, and a record without Global_Sales
C2_Witness ==
    /\ ~loading
    /\ Len(platformSales) >= 2
    /\ Len(genreSales) >= 2
    /\ Len(filteredData) > Len(platformSales)
    /\ \E i \in DOMAIN filteredData : filteredData[i].Global_Sales = Null
    /\ metrics.totalSales > 0

\* the number of filtered records that carry the genre written k
CarryGenre(k) ==
    Cardinality({ i \in DOMAIN filteredData :
                    JsString(filteredData[i].Genre) = k })

\* C3: every value of averageSalesByGenre is the genre's sum divided by the
\* number of filtered records carrying that genre, and that number is at
\* least 1.
C3_AverageIsSumOverCount ==
    \A i \in DOMAIN averageSalesByGenre :
        LET e == averageSalesByGenre[i]
        IN /\ CarryGenre(e.k) >= 1
           /\ e.v = [t |-> "fin", num |-> Get(genreSales, e.k),
                     den |-> CarryGenre(e.k)]

\* the filtered records that are not in the chart
NotInTop == { g \in Range(filteredData) : g \notin Range(topGames) }

\* C4: the top-10 list is sorted by non-increasing Global_Sales (absent as
\* 0), has min(10, |R|) rows, holds the largest records, and orders equal
\* figures by input order.
C4_TopTenRanking ==
    ChartsShown(loading, filteredData, currentView) =>
        /\ Len(topGames) = IF Len(filteredData) < 10 THEN Len(filteredData) ELSE 10
        /\ \A i \in DOMAIN topGames : topGames[i] \in Range(filteredData)
        /\ \A i, j \in DOMAIN topGames :
              i < j =>
                /\ topGames[i].Rank # topGames[j].Rank
                /\ AbsentAsZero(topGames[i].Global_Sales)
                     >= AbsentAsZero(topGames[j].Global_Sales)
                /\ AbsentAsZero(topGames[i].Global_Sales)
                     = AbsentAsZero(topGames[j].Global_Sales)
                   => PosInData(topGames[i]) < PosInData(topGames[j])
        /\ \A g \in NotInTop : \A i \in DOMAIN topGames :
              /\ AbsentAsZero(g.Global_Sales)
                   <= AbsentAsZero(topGames[i].Global_Sales)
              /\ AbsentAsZero(g.Global_Sales)
                   = AbsentAsZero(topGames[i].Global_Sales)
                 => PosInData(topGames[i]) < PosInData(g)

\* C4 witness: more than ten filtered records, the input not already ranked,
\* a record without Global_Sales in the chart, and a record left out that
\* has the same figure as the last one shown
C4_Witness ==
    /\ ChartsShown(loading, filteredData, currentView)
    /\ Len(filteredData) > 10
    /\ Len(topGames) = 10
    /\ topGames # SubSeq(data, 1, 10)
    /\ \E i \in DOMAIN topGames : topGames[i].Global_Sales = Null
    /\ \E g \in NotInTop :
          AbsentAsZero(g.Global_Sales) = AbsentAsZero(topGames[10].Global_Sales)

\* C5: a render that changes no dependency of the derivations (a view
\* switch, which draws the ranking) leaves the filtered and the loaded
\* record sequence as they were.
C5_RenderKeepsSequences ==
    [][(/\ data' = data
        /\ loading' = loading
        /\ filterYear' = filterYear
        /\ filterPlatform' = filterPlatform)
       => filteredData' = filteredData]_vars

\* no record of the loaded sequence satisfies both criteria
NoneSatisfies == \A i \in DOMAIN data : ~SatisfiesBoth(data[i])

\* C6: for an empty record sequence (nothing loaded or nothing matching) the
\* filtered sequence and the grouped aggregates are empty, the regional
\* totals are 0 and the metrics report count 0 with the average sentinel.
C6_EmptyInput ==
    /\ NoneSatisfies => filteredData = <<>>
    /\ filteredData = <<>> =>
          /\ platformSales = <<>>
          /\ genreSales = <<>>
          /\ yearlyTrend = <<>>
          /\ averageSalesByGenre = <<>>
          /\ regionalSales = [NA |-> 0, EU |-> 0, JP |-> 0, Other |-> 0]
          /\ metrics.totalGames = 0
          /\ metrics.totalSales = 0
          /\ metrics.avgSalesPerGame.t = "NaN"
          /\ topGames = <<>>

\* C6 witness: the dashboard is displayed, records are loaded and none
\* matches the criteria
C6_Witness ==
    /\ ~loading
    /\ data # <<>>
    /\ filterYear # "all"
    /\ filterPlatform # "all"
    /\ filteredData = <<>>

\* C7: a market share is region sum / total * 100 when the total is not 0,
\* and 0 or a flag (never an infinite quotient) when the total is 0.
C7_MarketShareDefined ==
    \A r \in {"NA", "EU", "JP", "Other"} :
        LET share == metrics.marketShare[r]
        IN IF metrics.totalSales # 0
           THEN share = [t |-> "fin", num |-> regionalSales[r] * 100,
                         den |-> metrics.totalSales]
           ELSE share.t = "NaN" \/ (share.t = "fin" /\ share.num = 0)

\* C8: with a specific year criterion no returned record has an absent or a
\* textual year, and with a specific platform criterion no returned record
\* has an absent platform.
C8_AbsentNeverMatches ==
    \A i \in DOMAIN filteredData :
        /\ filterYear # "all" => filteredData[i].Year.t = "num"
        /\ filterPlatform # "all" => filteredData[i].Platform # Null

HasYear(game) == game.Year \notin {Null, Str(""), Num(0)}

FirstMaximum(top, obj) ==
    LET entries == ObjectEntries(obj)
    IN obj # <<>> =>
         /\ top.def
         /\ \E i \in DOMAIN entries :
               /\ entries[i].k = top.k
               /\ entries[i].v = top.v
               /\ \A j \in DOMAIN entries : entries[j].v <= top.v
               /\ \A j \in DOMAIN entries : j < i => entries[j].v < top.v

\* C10: topPlatform, topGenre and bestYear are the keys with the largest sum
\* of platformSales, genreSales and yearlyTrend, the first in enumeration
\* order among equals.
C10_TopIsFirstMaximum ==
    /\ FirstMaximum(metrics.topPlatform, platformSales)
    /\ FirstMaximum(metrics.topGenre, genreSales)
    /\ FirstMaximum(metrics.bestYear, yearlyTrend)

\* some entry behind the first one has the largest value too
TiedMaximum(obj) ==
    LET entries == ObjectEntries(obj)
    IN \E i \in DOMAIN entries :
          i > 1 /\ \A j \in DOMAIN entries : entries[j].v <= entries[i].v

\* C10 witness: platformSales and genreSales each have several keys sharing
\* a positive maximum, and the top platform is not the key created first
C10_Witness ==
    /\ ~loading
    /\ TiedMaximum(platformSales)
    /\ TiedMaximum(genreSales)
    /\ metrics.bestYear.def
    /\ metrics.topPlatform.v > 0
    /\ metrics.topPlatform.k # platformSales[1].k

Regions == {"NA", "EU", "JP", "Other"}

\* the record field a region's total is taken from
RegionField(r) == CASE r = "NA" -> "NA_Sales" [] r = "EU" -> "EU_Sales"
                    [] r = "JP" -> "JP_Sales" [] r = "Other" -> "Other_Sales"

\* the loaded sequence with the Global_Sales of row i set to g
WithGlobalSales(i, g) ==
    [j \in DOMAIN data |->
        IF j = i THEN [data[j] EXCEPT !.Global_Sales = g] ELSE data[j]]

\* C11: every regional total is the sum of its regional field over the
\* filtered records, absent counted as 0, and no regional total changes
\* when the Global_Sales of a loaded record is changed.
C11_RegionalTotals ==
    /\ \A r \in Regions :
          regionalSales[r] =
            SumSeq([i \in DOMAIN filteredData |->
                      AbsentAsZero(filteredData[i][RegionField(r)])])
    /\ \A i \in DOMAIN data : \A g \in {Null, Num(0), Num(7)} :
          RegionalSales(ApplyFilters(WithGlobalSales(i, g), filterYear,
                                     filterPlatform)) = regionalSales

\* C11 witness: several filtered records, one without a regional figure,
\* every region sold something, and the four totals together are not the
\* Global_Sales total
C11_Witness ==
    /\ ~loading
    /\ Len(filteredData) >= 2
    /\ \E i \in DOMAIN filteredData : \E r \in Regions :
          filteredData[i][RegionField(r)] = Null
    /\ \A r \in Regions : regionalSales[r] > 0
    /\ regionalSales.NA + regionalSales.EU + regionalSales.JP
          + regionalSales.Other # metrics.totalSales

\* C12: filtering the filtered sequence again with the same criteria
\* returns it unchanged, for the criteria in force and for every pair of
\* criteria the dropdowns offer.
C12_FilterIdempotent ==
    /\ ApplyFilters(filteredData, filterYear, filterPlatform) = filteredData
    /\ \A fy \in YearOptions(data) : \A fp \in PlatformOptions(data) :
          LET once == ApplyFilters(data, fy, fp)
          IN ApplyFilters(once, fy, fp) = once

\* C12 witness: both criteria are specific, some loaded records match and
\* others do not
C12_Witness ==
    /\ ~loading
    /\ filterYear # "all"
    /\ filterPlatform # "all"
    /\ filteredData # <<>>
    /\ Len(filteredData) < Len(data)

\* The screen of the session that reaches (d, fy, fp, view) directly: it
\* loads d once, chooses the criteria on the dashboard and then goes to the
\* view.
DirectSession(d, fy, fp, view) ==
    LET loaded == Screen(d, FALSE, "all", "all", "dashboard", TRUE, <<>>)
        chosen == IF fy = "all" /\ fp = "all" THEN loaded
                  ELSE Screen(d, FALSE, fy, fp, "dashboard", TRUE, loaded)
    IN Screen(d, FALSE, fy, fp, view, FALSE, chosen)

\* C13: whatever history of filter changes, view switches and reloads led
\* to the loaded records and the criteria, the filtered sequence, the
\* grouped sums, averages, regional totals, metrics and the top-10 list are
\* those of the session that reached the same records and criteria directly.
C13_SameAsDirectSession ==
    (/\ ~loading
     /\ filterYear \in YearOptions(data)
     /\ filterPlatform \in PlatformOptions(data))
    => Shows(DirectSession(data, filterYear, filterPlatform, currentView))

\* the derivation of the variant applied to the loaded records and the
\* criteria in force
VariantCurrent ==
    VariantDerive(VariantApplyFilters(data, filterYear, filterPlatform))

\* C14: while the dashboard is displayed, every grouped sum, average,
\* regional total and the top-10 list on screen, and the chart of the detail
\* modal, are the derivation applied to the loaded records and the criteria
\* in force; nothing computed for earlier records or criteria is shown.
C14_ShownIsCurrent ==
    VariantChartsShown(loading, currentView) =>
        LET cur == VariantCurrent
            top == Slice(SortByGlobalSales(cur.filteredData), TopN)
        IN /\ platformSales = cur.platformSales
           /\ genreSales = cur.genreSales
           /\ yearlyTrend = cur.yearlyTrend
           /\ averageSalesByGenre = cur.averageSalesByGenre
           /\ regionalSales = cur.regionalSales
           /\ metrics = cur.metrics
           /\ topGames = top
           /\ selectedChart.open =>
                 selectedChart.data = ChartData(selectedChart.title, cur, top)

\* C18: the chart detail modal is rendered only with chart data that has at
\* least one entry, so that its data[0] exists.
C18_ModalHasData ==
    ModalShown => selectedChart.data # <<>>

\* the records of a sequence, each with the number of times it occurs
Occurrences(records) ==
    { <<g, Cardinality({ i \in DOMAIN records : records[i] = g })>> :
        g \in Range(records) }

\* C15: the record sequence changes only when a load completes, and then
\* to the whole parsed sequence with its calculated field; the filtered
\* sequence after any step is made of the records of the sequence in the
\* state after that step, never of a mixture of two sequences.
C15_LoadReplacesWhole ==
    [][/\ data' # data =>
            /\ loading /\ ~loading'
            /\ \E parsedData \in Served(data) : data' = Loaded(parsedData)
       /\ Occurrences(filteredData')
            = Occurrences(ApplyFilters(data', filterYear', filterPlatform'))
      ]_vars

\* C15 witness: a reload has put a non-empty sequence in the place of a
\* different non-empty one and the dashboard shows records of it
C15_Witness ==
    /\ history.on
    /\ history.replaced
    /\ ~loading
    /\ filteredData # <<>>

\* C17: after a failed load the component shows its empty state (the "No
\* Data Found" panel, the only error or empty indication it can draw), also
\* when the failed load was a reload over loaded data.
C17_FailedLoadVisible ==
    (history.on /\ history.outcome = "failed" /\ ~loading)
    => filteredData = <<>>

\* C19: the number of loads started is 1 plus the number of Refresh clicks,
\* and a load starts only in the step of a Refresh click, whatever the
\* outcome of the load before.
C19_LoadsAreFirstPlusClicks ==
    /\ [](history.on => history.started = 1 + history.clicks)
    /\ [][history'.started # history.started =>
             /\ ~loading /\ loading'
             /\ history'.started = history.started + 1
             /\ history'.clicks = history.clicks + 1]_vars

\* C19 witness: a load failed and a Refresh click has started the third load
C19_Witness ==
    /\ history.on
    /\ history.outcome = "failed"
    /\ loading
    /\ history.started >= 3
    /\ history.clicks >= 2

\* the three records of the scenario, in the order of the file
ScenarioFile ==
    << Game(1, Str("Wii"), Num(2008), Str("Sports"),
            Num(4), Num(3), Num(2), Num(1), Num(10)),
       Game(2, Str("DS"), Num(2008), Str("Action"),
            Num(2), Num(1), Null, Num(0), Num(5)),
       Game(3, Str("Wii"), Num(2009), Str("Sports"),
            Num(1), Num(1), Num(1), Null, Num(3)) >>

\* a grouped aggregate as a set of key/sum pairs
KeySums(obj) == { <<obj[i].k, obj[i].v>> : i \in DOMAIN obj }

\* C20: for the records [Wii 10 2008, DS 5 2008, Wii 3 2009] the platform
\* sums are Wii 13 and DS 5 without criteria and Wii 10 and DS 5 for the
\* year 2008, and the first row of the ranking of the unfiltered records is
\* the first Wii record.
C20_Scenario ==
    (~loading /\ data = Loaded(ScenarioFile) /\ filterPlatform = "all") =>
        /\ filterYear = "all" =>
              /\ KeySums(platformSales) = {<<"Wii", 13>>, <<"DS", 5>>}
              /\ Len(platformSales) = 2
              /\ currentView = "dashboard" => Slice(topGames, 1) = <<data[1]>>
        /\ filterYear = "2008" =>
              /\ KeySums(platformSales) = {<<"Wii", 10>>, <<"DS", 5>>}
              /\ Len(platformSales) = 2
              /\ Len(filteredData) = 2

\* C20 witness: the scenario file is loaded and the year 2008 is chosen on
\* the dashboard
C20_Witness ==
    /\ ~loading
    /\ data = Loaded(ScenarioFile)
    /\ filterYear = "2008"
    /\ filterPlatform = "all"
    /\ currentView = "dashboard"
    /\ Len(topGames) = 2

\* C21: with no sort column chosen and an empty search, the rows the data
\* table lists are in the relative order of the loaded record sequence.
C21_TableInLoadedOrder ==
    (table.mounted /\ table.sortConfig = NoSort /\ table.searchTerm = "")
        => LET rows == SortedData(table, filteredData)
           IN \A i, j \in DOMAIN rows :
                 i < j => PosInData(rows[i]) < PosInData(rows[j])

\* C22: whenever at least one row matches the search and the filters of the
\* table, the displayed page is not empty: currentPage does not exceed
\* totalPages.
C22_PageNotEmpty ==
    (table.mounted /\ SortedData(table, filteredData) # <<>>)
        => /\ PaginatedData(table, filteredData) # <<>>
           /\ table.currentPage <= TotalPages(table, filteredData)

\* C23: currentPage is at least 1 in every state of the table.
C23_PageAtLeastOne == table.mounted => table.currentPage >= 1

RECURSIVE PagesFrom(_, _, _)
\* the pages p..last of rows, one after the other
PagesFrom(rows, p, last) ==
    IF p > last THEN <<>> ELSE PageOf(rows, p) \o PagesFrom(rows, p + 1, last)

\* rows are cut into pages as C24 says
WellPaged(rows) ==
    LET n == Len(rows)
        totalPages == PagesFor(n)
    IN /\ totalPages * ItemsPerPage >= n
       /\ totalPages >= 0
       /\ totalPages > 0 => (totalPages - 1) * ItemsPerPage < n
       /\ \A p \in 1..totalPages :
             Len(PageOf(rows, p)) \in 1..ItemsPerPage
       /\ PagesFrom(rows, 1, totalPages) = rows

\* C24: for the sorted result of the table and every shorter result (its
\* prefixes), totalPages is the least number of pages of 25 rows that hold
\* the rows, every page 1..totalPages has between 1 and 25 rows, and the
\* pages in order make up the result.
C24_PagesPartitionResult ==
    table.mounted =>
        LET sorted == SortedData(table, filteredData)
        IN \A n \in 0..Len(sorted) : WellPaged(SubSeq(sorted, 1, n))

\* the table shows the second page, of one row, of a result of two pages
C24_Witness ==
    /\ table.mounted
    /\ table.currentPage = 2
    /\ TotalPages(table, filteredData) = 2
    /\ Len(PaginatedData(table, filteredData)) = 1

\* C25: every platform value of the loaded records is offered by the
\* platform dropdown, and while that option is selected with year "all" the
\* filtered records are exactly the (one or more) records of that platform.
C25_OfferedPlatformSelects ==
    ~loading =>
        \A i \in DOMAIN data :
            LET platform == data[i].Platform
            IN platform # Null =>
                /\ OptionValue(platform) \in PlatformOptions(data)
                /\ (filterYear = "all" /\ filterPlatform = OptionValue(platform))
                      => /\ filteredData # <<>>
                         /\ Range(filteredData) =
                               { g \in Range(data) : g.Platform = platform }

\* C26: the step in which a load fails leaves the record sequence, the
\* criteria, the view and lastUpdated with the values they had when the load
\* started, and takes the loading flag from true to false.
C26_FailedLoadKeepsState ==
    [][(history.on /\ inflight' < inflight /\ history'.outcome = "failed")
          => /\ CurrentValues' = history.atStart
             /\ loading /\ ~loading']_vars

\* a reload has failed in a session that shows the table of a loaded file
\* filtered by year
C26_Witness ==
    /\ history.on /\ history.outcome = "failed" /\ history.started > 1
    /\ ~loading
    /\ data # <<>>
    /\ lastUpdated.set
    /\ filterYear # "all"
    /\ currentView = "table"

\* C27: every load leaves the loading state: whenever loading is true it
\* becomes false later, and it is false right after every load that ends.
C27_LoadingEnds ==
    /\ loading ~> ~loading
    /\ [][inflight' < inflight => ~loading']_vars

\* a second load has ended and the spinner is gone
C27_Witness ==
    /\ history.on /\ history.started > 1 /\ history.outcome # "none"
    /\ inflight = 0
    /\ ~loading

\* what the spinner is: no chart and no table on the screen
OnlySpinner == topGames = <<>> /\ ~table.mounted

\* C28: while a load is in flight nothing but the spinner is rendered, at
\* most one load is in flight at any time, and the criteria and the view at
\* the end of a load are those of its start.
C28_OneLoadAtATime ==
    /\ [](inflight <= 1 /\ (inflight > 0 <=> loading)
           /\ (loading => OnlySpinner))
    /\ [][(history.on /\ inflight' < inflight)
             => /\ filterYear' = history.atStart.filterYear
                /\ filterPlatform' = history.atStart.filterPlatform
                /\ currentView' = history.atStart.currentView]_vars

\* a reload is in flight in a session whose criteria and view are not the
\* initial ones
C28_Witness ==
    /\ history.on /\ history.clicks > 0
    /\ inflight = 1
    /\ loading
    /\ filterPlatform # "all"
    /\ currentView = "table"

\* number of places at which x stands in seq
CountIn(seq, x) == Cardinality({ i \in DOMAIN seq : seq[i] = x })

IsPermutation(a, b) ==
    /\ Len(a) = Len(b)
    /\ \A x \in Range(a) \cup Range(b) : CountIn(a, x) = CountIn(b, x)

\* a step in which a click on a column header changes the sort of the
\* mounted table
SortClick == table.mounted /\ table'.mounted /\ table'.sortConfig # table.sortConfig

IntToStr(n) == IF n < 0 THEN "-" \o NumToStr(0 - n) ELSE NumToStr(n)

\* year criteria: "all" and the decimal texts of integers, among them the
\* years of the records, numbers no record has and a platform's number
YearCriteria ==
    {"all"} \cup { IntToStr(n) : n \in {-2008, 0, 8, 200, 2008, 2009, 2600, 20080} }

\* every Year of the records is a positive integer or absent
YearsPositiveOrAbsent(records) ==
    \A i \in DOMAIN records :
        \/ records[i].Year = Null
        \/ records[i].Year.t = "num" /\ records[i].Year.n > 0

\* C30: on records whose Year values are positive integers or absent, and
\* for a year criterion that is "all" or the decimal text of an integer
\* (with any platform criterion the dropdown offers), the filter of
\* Dashboard.tsx and the filter of the earlier variant return the same
\* subsequence.
C30_FiltersAgree ==
    YearsPositiveOrAbsent(data) =>
        \A fy \in YearCriteria, fp \in PlatformOptions(data) :
            ApplyFilters(data, fy, fp) = VariantApplyFilters(data, fy, fp)

\* the dashboard filters records with and without a year by a year that
\* some but not all of them have
C30_Witness ==
    /\ ~loading
    /\ YearsPositiveOrAbsent(data)
    /\ \E i \in DOMAIN data : data[i].Year = Null
    /\ filterYear \in YearCriteria \ {"all"}
    /\ filteredData # <<>>
    /\ VariantApplyFilters(data, filterYear, filterPlatform) # <<>>
    /\ \E i \in DOMAIN data :
          data[i].Year # Null /\ JsString(data[i].Year) # filterYear

====
